---- MODULE Spec2Model ----
(***************************************************************************)
(* A model of src/ssl/mod.rs: the SslStream adapter that drives an OpenSSL *)
(* session through two memory BIOs over a blocking transport, and the      *)
(* one-time library bootstrap init().                                      *)
(*                                                                         *)
(* The TLS engine (libssl) and the transport are the environment.  Every   *)
(* call into them is one step whose answer is drawn from a set; the code   *)
(* of the adapter between two such calls is translated into the operators  *)
(* below and runs inside that step.                                        *)
(***************************************************************************)
EXTENDS Integers, Sequences, FiniteSets, TLC

VARIABLES
    ad,         \* side -> the SslStream on that side (with its Ssl and BIOs)
    pipe,       \* side -> ciphertext in flight towards that side
    app,        \* side -> the task that uses the stream of that side
    boot,       \* the process-wide state init() sets up
    th,         \* thread -> the position of a thread that creates contexts
    cx,         \* the contexts, their sessions and the last call of raw_verify
    wire,       \* what the stream has asked of its transport (history)
    heap,       \* the engine objects each call of Ssl::try_new has allocated
    mx          \* the mutexes behind the engine's locking callbacks

vars == <<ad, pipe, app, boot, th, cx, wire, heap, mx>>
streamVars == <<ad, pipe, app>>
bootVars == <<boot, th>>
auxVars == <<cx, wire, heap, mx>>

----------------------------------------------------------------------------
(* Bounds of the model *)

\* longest buffer a caller passes to read or write
MaxLen == 2
\* length of the scratch buffer `buf` (16 * 1024 in the source, scaled down)
BufSize == 2
\* most bytes a memory BIO holds at once
MaxBio == 2

Byte == 0..1

SeqsUpTo(S, n) == UNION {[1..k -> S] : k \in 0..n}

Min(a, b) == IF a < b THEN a ELSE b

----------------------------------------------------------------------------
(* Errors *)

\* "no IoError": the Ok(..) arm of an IoResult
NoIo == [kind |-> "none", desc |-> "none"]

\* errors the underlying transport may raise (std::io::IoError: kind, desc)
IoErrors ==
    {[kind |-> "EndOfFile", desc |-> "end of file"],
     [kind |-> "ConnectionReset", desc |-> "connection reset"]}

\* the IoError Reader::read builds for a closed session
SessionClosedEof == [kind |-> "EndOfFile", desc |-> "SSL session closed"]

\* diagnostics the engine's error queue may hold
Diag == 1..2

\* ssl::error::SslError
NoSslError == [tag |-> "none", io |-> NoIo, diag |-> 0]
SslSessionClosed == [tag |-> "SslSessionClosed", io |-> NoIo, diag |-> 0]
StreamError(e) == [tag |-> "StreamError", io |-> e, diag |-> 0]
OpenSslErrors(d) == [tag |-> "OpenSslErrors", io |-> NoIo, diag |-> d]

\* enum LibSslError
LibSslError ==
    {"ErrorNone", "ErrorSsl", "ErrorWantRead", "ErrorWantWrite",
     "ErrorWantX509Lookup", "ErrorSyscall", "ErrorZeroReturn",
     "ErrorWantConnect", "ErrorWantAccept"}

\* Result<c_int, SslError> of in_retry_wrapper
RetOk(n) == [ok |-> TRUE, ret |-> n, err |-> NoSslError]
RetErr(e) == [ok |-> FALSE, ret |-> 0, err |-> e]

\* what a public call hands back to its caller
Res(kind, ssl, io, len, data) ==
    [kind |-> kind, ssl |-> ssl, io |-> io, len |-> len, data |-> data]
NoRes == Res("none", NoSslError, NoIo, 0, <<>>)
ResOk == Res("Ok", NoSslError, NoIo, 0, <<>>)
ResRead(n, d) == Res("Ok", NoSslError, NoIo, n, d)
ResIoErr(e) == Res("Err", NoSslError, e, 0, <<>>)
ResSslErr(e) == Res("Err", e, NoIo, 0, <<>>)
ResBool(b) == Res(IF b THEN "true" ELSE "false", NoSslError, NoIo, 0, <<>>)
\* the task failed (fail!, unreachable!, a failed assert!): nothing is returned
ResFail == Res("fail", NoSslError, NoIo, 0, <<>>)

----------------------------------------------------------------------------
(* The adapter: struct SslStream { stream, ssl, buf }, the Ssl it owns with *)
(* its two memory BIOs, and the position of the call in progress.           *)
(*                                                                          *)
(*   pc    "new"    no stream has been constructed                          *)
(*         "idle"   a stream exists and no call is in progress              *)
(*         "blk"    in_retry_wrapper is about to call blk(&self.ssl)        *)
(*         "wt"     write_through is about to read the outbound BIO         *)
(*         "sflush" flush is about to call self.stream.flush()              *)
(*         "sread"  in_retry_wrapper is about to call self.stream.read(..)  *)
(*         "dead"   the task failed inside a call                           *)
(*   op    the public call in progress, or the last one that returned       *)
(*   cont  who called write_through: "wantread" / "wantwrite" (flush from   *)
(*         the retry loop), "public" (Writer::flush), "write" (line 761)    *)
(* The fields after `hs` are history variables: they record what happened   *)
(* in the current call and are read only by the properties.                 *)
(*   acc      the bytes the engine accepted in this write call, in order    *)
(*   given    the slice handed to the last engine write attempt, and        *)
(*   givenAt  the number of bytes accepted before that attempt              *)
(*   tErr     the transport error raised inside the retry loop              *)
(*   drainErr the transport error raised by write's own write_through       *)
(*   last     the engine's last answer: "progress" or a LibSslError         *)
(*   loopEnd  how the last invocation of in_retry_wrapper ended             *)
(*   readClosed  the engine has reported a clean close to a read call       *)
(*   lateRead    this read call began after that                            *)
(*   hsT      an earlier try_new on this side failed with a StreamError     *)
(***************************************************************************)

ZeroBuf == [i \in 1..BufSize |-> 0]

NoStream ==
    [pc |-> "new", op |-> "none", cont |-> "none",
     wbio |-> <<>>, rbio |-> <<>>, buf |-> ZeroBuf,
     wbuf |-> <<>>, start |-> 0, rcap |-> 0, rbuf |-> <<>>,
     res |-> NoRes,
     shut |-> FALSE, hs |-> "start",
     acc |-> <<>>, given |-> <<>>, givenAt |-> 0,
     tErr |-> NoIo, drainErr |-> NoIo, last |-> "none", loopEnd |-> "none",
     readClosed |-> FALSE, lateRead |-> FALSE, hsT |-> FALSE]

\* a call begins: the history of the previous call is forgotten
BeginCall(st, op) ==
    [st EXCEPT !.op = op, !.cont = "none", !.res = NoRes,
               !.wbuf = <<>>, !.start = 0, !.rcap = 0, !.rbuf = <<>>,
               !.acc = <<>>, !.given = <<>>, !.givenAt = 0,
               !.tErr = NoIo, !.drainErr = NoIo, !.last = "none",
               !.loopEnd = "none"]

\* a public call returns r to its caller
Return(st, r) == [st EXCEPT !.pc = "idle", !.res = r]

\* unreachable!(): the task fails and the stream is gone with it
Unreachable(st) == [st EXCEPT !.pc = "dead", !.res = ResFail]

\* buf.slice_from(start), buf.slice_to(len)
slice_from(b, start) == SubSeq(b, start + 1, Len(b))
slice_to(b, len) == SubSeq(b, 1, len)

\* bytes copied into the front of the scratch buffer; the rest keeps its content
Fill(buf, bytes) ==
    [i \in 1..Len(buf) |-> IF i <= Len(bytes) THEN bytes[i] ELSE buf[i]]

----------------------------------------------------------------------------
(* Memory BIOs *)

\* faulty variant: an empty BIO answers 0, that is Some(0)
MemBio_read_zero(bio, cap) ==
    LET n == Min(Len(bio), cap)
    IN  [some |-> TRUE, len |-> n, bytes |-> SubSeq(bio, 1, n),
         rest |-> SubSeq(bio, n + 1, Len(bio))]

\* MemBio::read: BIO_read of at most cap bytes; an empty BIO answers -1 (None)
MemBio_read(bio, cap) ==
    LET n == Min(Len(bio), cap)
    IN  IF Len(bio) = 0
        THEN [some |-> FALSE, len |-> 0, bytes |-> <<>>, rest |-> bio]
        ELSE [some |-> TRUE, len |-> n, bytes |-> SubSeq(bio, 1, n),
              rest |-> SubSeq(bio, n + 1, Len(bio))]

\* MemBio::write: BIO_write takes all of the bytes
MemBio_write(bio, bytes) == bio \o bytes

----------------------------------------------------------------------------
(* What each caller of in_retry_wrapper does with its result r *)

\* faulty variant: the stream is handed out whatever the handshake gave
try_new_result_always(st, r) == Return(st, ResOk)

\* try_new / try_new_from: Ok(_) => Ok(st), Err(err) => Err(err)
try_new_result(st, r) ==
    IF r.ok
    THEN Return(st, ResOk)
    ELSE [st EXCEPT !.pc = "new", !.res = ResSslErr(r.err)]

\* faulty variant: a closed session read as zero bytes
Reader_read_result_zero(st, r) ==
    CASE r.ok -> Return(st, ResRead(r.ret, st.rbuf))
      [] ~r.ok /\ r.err.tag = "SslSessionClosed" -> Return(st, ResRead(0, <<>>))
      [] ~r.ok /\ r.err.tag = "StreamError" -> Return(st, ResIoErr(r.err.io))
      [] OTHER -> Unreachable(st)

\* Reader::read: the match on the result of the retry loop
Reader_read_result(st, r) ==
    CASE r.ok -> Return(st, ResRead(r.ret, st.rbuf))
      [] ~r.ok /\ r.err.tag = "SslSessionClosed" ->
            Return(st, ResIoErr(SessionClosedEof))
      [] ~r.ok /\ r.err.tag = "StreamError" -> Return(st, ResIoErr(r.err.io))
      [] OTHER -> Unreachable(st)

\* faulty variant: start = len in place of start += len
Writer_write_result_assign(st, r) ==
    IF r.ok
    THEN [st EXCEPT !.start = r.ret, !.pc = "wt", !.cont = "write"]
    ELSE Unreachable(st)

\* faulty variant: the loop goes on without try!(self.write_through())
Writer_write_result_nodrain(st, r) ==
    IF r.ok
    THEN IF st.start + r.ret < Len(st.wbuf)
         THEN [st EXCEPT !.start = st.start + r.ret, !.pc = "blk"]
         ELSE Return([st EXCEPT !.start = st.start + r.ret], ResOk)
    ELSE Unreachable(st)

\* Writer::write: the match on ret, then try!(self.write_through())
Writer_write_result(st, r) ==
    IF r.ok
    THEN [st EXCEPT !.start = st.start + r.ret, !.pc = "wt", !.cont = "write"]
    ELSE Unreachable(st)

\* faulty variant: an error of the loop handed on to the caller
renegotiate_result_err(st, r) ==
    IF r.ok
    THEN Return(st, ResBool(r.ret = 1))
    ELSE Return(st, ResSslErr(r.err))

\* renegotiate: Ok(1) => true, every other outcome => false
renegotiate_result(st, r) ==
    IF r.ok
    THEN Return(st, ResBool(r.ret = 1))
    ELSE Return(st, ResBool(FALSE))

\* how an invocation of the retry loop ended (history)
LoopEnd(r) ==
    CASE r.ok -> "success"
      [] ~r.ok /\ r.err.tag = "SslSessionClosed" -> "closed"
      [] ~r.ok /\ r.err.tag = "OpenSslErrors" -> "protocol"
      [] ~r.ok /\ r.err.tag = "StreamError" -> "transport"
      [] OTHER -> "other"

\* in_retry_wrapper returns r to the call that invoked it
in_retry_return(st, r) ==
    LET s1 == [st EXCEPT !.loopEnd = LoopEnd(r)]
    IN  CASE st.op = "connect" -> try_new_result(s1, r)
          [] st.op = "read" -> Reader_read_result(s1, r)
          [] st.op = "write" -> Writer_write_result(s1, r)
          [] st.op = "renegotiate" -> renegotiate_result(s1, r)

\* faulty variant: a transport error reported as the session having closed
try_ssl_closed(st, io) ==
    in_retry_return([st EXCEPT !.tErr = io], RetErr(SslSessionClosed))

\* try_ssl!(e): Err(err) => return Err(StreamError(err))
try_ssl(st, io) ==
    in_retry_return([st EXCEPT !.tErr = io], RetErr(StreamError(io)))

----------------------------------------------------------------------------
(* Writer::write's loop head, Writer::flush and write_through *)

\* while start < buf.len() { .. } Ok(())
Writer_write_loop(st) ==
    IF st.start < Len(st.wbuf)
    THEN [st EXCEPT !.pc = "blk"]
    ELSE Return(st, ResOk)

\* flush() returns io (NoIo: Ok(())) to whoever called it
flush_return(st, io) ==
    CASE st.cont = "public" ->
            Return(st, IF io = NoIo THEN ResOk ELSE ResIoErr(io))
      [] st.cont = "wantread" ->
            IF io = NoIo THEN [st EXCEPT !.pc = "sread"] ELSE try_ssl(st, io)
      [] st.cont = "wantwrite" ->
            IF io = NoIo THEN [st EXCEPT !.pc = "blk"] ELSE try_ssl(st, io)

\* write_through() returns io to its caller: flush (line 767) or write (line 761)
write_through_return(st, io) ==
    IF st.cont = "write"
    THEN IF io = NoIo
         THEN Writer_write_loop(st)
         ELSE Return([st EXCEPT !.drainErr = io], ResIoErr(io))
    ELSE IF io = NoIo
         THEN [st EXCEPT !.pc = "sflush"]
         ELSE flush_return(st, io)

\* faulty variant: the whole scratch buffer handed to self.stream.write
write_through_chunk_whole(st) ==
    LET r == MemBio_read(st.wbio, Len(st.buf))
    IN  Fill(st.buf, r.bytes)

\* the bytes one iteration of write_through hands to self.stream.write
write_through_chunk(st) ==
    LET r == MemBio_read(st.wbio, Len(st.buf))
    IN  slice_to(Fill(st.buf, r.bytes), r.len)

\* faulty variant: one chunk is written and the loop left
write_through_once(st, io) ==
    LET r == MemBio_read(st.wbio, Len(st.buf))
        s1 == [st EXCEPT !.wbio = r.rest, !.buf = Fill(st.buf, r.bytes)]
    IN  IF ~r.some
        THEN write_through_return(st, NoIo)
        ELSE write_through_return(s1, io)

\* one iteration of write_through's loop; io is the answer of stream.write
write_through(st, io) ==
    LET r == MemBio_read(st.wbio, Len(st.buf))
        s1 == [st EXCEPT !.wbio = r.rest, !.buf = Fill(st.buf, r.bytes)]
    IN  IF ~r.some
        THEN write_through_return(st, NoIo)
        ELSE IF io = NoIo THEN s1 ELSE write_through_return(s1, io)

\* self.stream.flush() answered io
stream_flush(st, io) == flush_return(st, io)

\* faulty variant: the whole scratch buffer fed to the inbound BIO
stream_read_whole(st, io, bytes) ==
    LET b1 == Fill(st.buf, bytes)
    IN  IF io # NoIo
        THEN try_ssl(st, io)
        ELSE [st EXCEPT !.buf = b1,
                        !.rbio = MemBio_write(st.rbio, b1),
                        !.pc = "blk"]

\* faulty variant: a read of no bytes taken for the end of the session
stream_read_eof(st, io, bytes) ==
    LET b1 == Fill(st.buf, bytes)
    IN  IF io # NoIo
        THEN try_ssl(st, io)
        ELSE IF bytes = <<>>
             THEN in_retry_return(st, RetErr(SslSessionClosed))
             ELSE [st EXCEPT !.buf = b1,
                             !.rbio = MemBio_write(st.rbio,
                                                   slice_to(b1, Len(bytes))),
                             !.pc = "blk"]

\* let len = try_ssl!(self.stream.read(buf)); rbio.write(buf.slice_to(len))
stream_read(st, io, bytes) ==
    LET b1 == Fill(st.buf, bytes)
    IN  IF io # NoIo
        THEN try_ssl(st, io)
        ELSE [st EXCEPT !.buf = b1,
                        !.rbio = MemBio_write(st.rbio, slice_to(b1, Len(bytes))),
                        !.pc = "blk"]

----------------------------------------------------------------------------
(* in_retry_wrapper: one iteration, given the engine's answer to blk *)

\* faulty variant: on ErrorWantRead the transport is read before the drain
in_retry_wrapper_read_first(st, ans) ==
    IF ans.ret > 0
    THEN in_retry_return(st, RetOk(ans.ret))
    ELSE CASE ans.err = "ErrorWantRead" -> [st EXCEPT !.pc = "sread"]
           [] ans.err = "ErrorWantWrite" ->
                [st EXCEPT !.pc = "wt", !.cont = "wantwrite"]
           [] ans.err = "ErrorZeroReturn" ->
                in_retry_return(st, RetErr(SslSessionClosed))
           [] ans.err = "ErrorSsl" ->
                in_retry_return(st, RetErr(OpenSslErrors(ans.diag)))
           [] OTHER -> Unreachable([st EXCEPT !.loopEnd = "unreachable"])

\* faulty variant: ErrorWantWrite handled by the arm of ErrorWantRead
in_retry_wrapper_one_arm(st, ans) ==
    IF ans.ret > 0
    THEN in_retry_return(st, RetOk(ans.ret))
    ELSE CASE ans.err \in {"ErrorWantRead", "ErrorWantWrite"} ->
                [st EXCEPT !.pc = "wt", !.cont = "wantread"]
           [] ans.err = "ErrorZeroReturn" ->
                in_retry_return(st, RetErr(SslSessionClosed))
           [] ans.err = "ErrorSsl" ->
                in_retry_return(st, RetErr(OpenSslErrors(ans.diag)))
           [] OTHER -> Unreachable([st EXCEPT !.loopEnd = "unreachable"])

\* faulty variant: on ErrorWantRead the loop drains and asks the engine
\* again without reading the transport
in_retry_wrapper_no_read(st, ans) ==
    IF ans.ret > 0
    THEN in_retry_return(st, RetOk(ans.ret))
    ELSE CASE ans.err \in {"ErrorWantRead", "ErrorWantWrite"} ->
                [st EXCEPT !.pc = "wt", !.cont = "wantwrite"]
           [] ans.err = "ErrorZeroReturn" ->
                in_retry_return(st, RetErr(SslSessionClosed))
           [] ans.err = "ErrorSsl" ->
                in_retry_return(st, RetErr(OpenSslErrors(ans.diag)))
           [] OTHER -> Unreachable([st EXCEPT !.loopEnd = "unreachable"])

in_retry_wrapper(st, ans) ==
    IF ans.ret > 0
    THEN in_retry_return(st, RetOk(ans.ret))
    ELSE CASE ans.err = "ErrorWantRead" ->
                [st EXCEPT !.pc = "wt", !.cont = "wantread"]
           [] ans.err = "ErrorWantWrite" ->
                [st EXCEPT !.pc = "wt", !.cont = "wantwrite"]
           [] ans.err = "ErrorZeroReturn" ->
                in_retry_return(st, RetErr(SslSessionClosed))
           [] ans.err = "ErrorSsl" ->
                in_retry_return(st, RetErr(OpenSslErrors(ans.diag)))
           [] OTHER -> Unreachable([st EXCEPT !.loopEnd = "unreachable"])

----------------------------------------------------------------------------
(* The public calls, up to their first call into the engine or transport *)

\* SslStream::try_new: a fresh Ssl with empty BIOs, a zeroed scratch buffer
try_new(st) ==
    [BeginCall(NoStream, "connect") EXCEPT
        !.pc = "blk",
        !.hsT = st.hsT \/ (st.op = "connect" /\ st.res.ssl.tag = "StreamError")]

Reader_read(st, cap) ==
    [BeginCall(st, "read") EXCEPT !.rcap = cap, !.pc = "blk",
                                  !.lateRead = st.readClosed]

Writer_write(st, b) ==
    Writer_write_loop([BeginCall(st, "write") EXCEPT !.wbuf = b])

Writer_flush(st) ==
    [BeginCall(st, "flush") EXCEPT !.pc = "wt", !.cont = "public"]

renegotiate(st) ==
    [BeginCall(st, "renegotiate") EXCEPT !.pc = "blk"]

----------------------------------------------------------------------------
(* The engine.  An answer to one attempt is                                 *)
(*   ret   the c_int SSL_connect / SSL_read / SSL_write / SSL_do_handshake  *)
(*         returned                                                         *)
(*   err   what SSL_get_error classifies a non-positive ret as              *)
(*   diag  what SslError::get() finds in the error queue                    *)
(*   data  the plaintext SSL_read placed in the caller's buffer             *)
(*   out   ciphertext the attempt appended to the outbound BIO              *)
(*   eat   how many bytes of the inbound BIO the attempt consumed           *)
(*   hs    the session's handshake state after the attempt                  *)
(***************************************************************************)

Answer(ret, err, diag, data, out, eat, hs) ==
    [ret |-> ret, err |-> err, diag |-> diag, data |-> data,
     out |-> out, eat |-> eat, hs |-> hs]

\* the slice the closure passes to ssl.write: buf.slice_from(start)
blk_arg(st) == IF st.op = "write" THEN slice_from(st.wbuf, st.start) ELSE <<>>

\* the attempt's effect on the session, and the history of the call
Engine(st, ans) ==
    LET closed == ans.ret <= 0 /\ ans.err = "ErrorZeroReturn"
        arg == blk_arg(st)
    IN  [st EXCEPT
            !.wbio = st.wbio \o ans.out,
            !.rbio = SubSeq(st.rbio, ans.eat + 1, Len(st.rbio)),
            !.rbuf = ans.data,
            !.hs = ans.hs,
            !.shut = st.shut \/ closed,
            !.last = IF ans.ret > 0 THEN "progress" ELSE ans.err,
            !.readClosed = st.readClosed \/ (closed /\ st.op = "read"),
            !.given = arg,
            !.givenAt = Len(st.acc),
            !.acc = IF st.op = "write" /\ ans.ret > 0
                    THEN st.acc \o slice_to(arg, ans.ret)
                    ELSE st.acc]

\* blk(&self.ssl) answered ans: the rest of the loop's iteration
attempt(st, ans) == in_retry_wrapper(Engine(st, ans), ans)

\* The positive results an attempt may give.  A session that has received
\* the peer's close_notify gives SSL_read nothing more.
Progress(st) ==
    CASE st.op \in {"connect", "renegotiate"} ->
            {[ret |-> 1, data |-> <<>>]}
      [] st.op = "read" ->
            IF st.shut THEN {}
            ELSE {[ret |-> Len(d), data |-> d] :
                    d \in SeqsUpTo(Byte, st.rcap) \ {<<>>}}
      [] st.op = "write" ->
            {[ret |-> n, data |-> <<>>] : n \in 1..Len(blk_arg(st))}

\* The classifications of a non-positive result, with the diagnostic
\* (SSL_get_error answers SSL_ERROR_NONE for a positive result only)
Failures(st) ==
    IF st.op = "read" /\ st.shut
    THEN {[err |-> "ErrorZeroReturn", diag |-> 0]}
    ELSE {[err |-> e, diag |-> 0] :
            e \in LibSslError \ {"ErrorNone", "ErrorSsl"}}
         \cup {[err |-> "ErrorSsl", diag |-> d] : d \in Diag}

\* Every answer an arbitrary engine may give to the attempt st is about to
\* make.  The attempt takes what the inbound BIO holds (the adapter never
\* reads that BIO back) and may leave ciphertext in the outbound BIO.  A
\* positive result of SSL_connect or SSL_do_handshake is a completed
\* handshake.
EngineAnswersWith(st, outs) ==
    LET n == Len(st.rbio)
        done == IF st.op \in {"connect", "renegotiate"} THEN "done" ELSE st.hs
    IN  {Answer(p.ret, "ErrorNone", 0, p.data, o, n, done) :
            p \in Progress(st), o \in outs}
        \cup
        {Answer(IF f.err = "ErrorZeroReturn" THEN 0 ELSE -1,
                f.err, f.diag, <<>>, o, n, st.hs) :
            f \in Failures(st), o \in outs}

EngineAnswers(st) ==
    EngineAnswersWith(st, SeqsUpTo(Byte, MaxBio - Len(st.wbio)))

\* the answers of the transport's write and flush
TransportAnswers == {NoIo} \cup IoErrors

\* the chunks a transport read may place in the scratch buffer
ReadChunks(st) == SeqsUpTo(Byte, Len(st.buf))

----------------------------------------------------------------------------
(* The bootstrap: fn init(), the statics VERIFY_IDX and MUTEXES, and the    *)
(* threads that create contexts and sessions.                               *)
(*                                                                          *)
(*   boot.once   the Once INIT: "incomplete", "running" (a thread is inside *)
(*               the closure) or "complete"                                 *)
(*   boot.VERIFY_IDX, boot.MUTEXES   the statics; MUTEXES is 0 while null,  *)
(*               else the length of the vector it points to                 *)
(*   boot.cb     the callback installed in each of the engine's four slots, *)
(*               "null" until installed                                     *)
(*   boot.lib, .reg, .allocs, .installs   how often each step of the        *)
(*               closure has run (history)                                  *)
(*   th[t].pc    "idle", "doit" (inside init(), at INIT.doit), the closure  *)
(*               steps "lib", "idx", "locks", "cb1".."cb4" , "ctx_new" (at  *)
(*               SSL_CTX_new), "failed" (the task failed)                   *)
(*   th[t].calls, .ctxs, .ssls   the calls of SslContext::try_new made, the *)
(*               contexts and the sessions the thread holds                 *)
(*   th[t].waited   the thread has entered init() while another thread was  *)
(*               inside the closure (history)                               *)
(***************************************************************************)

\* threads of the process
NumThreads == 2
\* calls of SslContext::try_new one thread makes
MaxCalls == 2
\* what CRYPTO_num_locks() answers
NumLocks == 2
\* largest index SSL_CTX_get_ex_new_index hands out
MaxIdx == 1

Thread == 1..NumThreads

Boot0 ==
    [once |-> "incomplete", VERIFY_IDX |-> -1, MUTEXES |-> 0,
     cb |-> [locking |-> "null", dyn_create |-> "null",
             dyn_lock |-> "null", dyn_destroy |-> "null"],
     lib |-> 0, reg |-> 0, allocs |-> 0, installs |-> 0]

Thread0 ==
    [pc |-> "idle", calls |-> 0, ctxs |-> 0, ssls |-> 0, waited |-> FALSE]

BT(b, t) == [b |-> b, t |-> t]

\* faulty variant: a flag raised when the closure starts, not when it ends
OnceDone_early(b) == b.once # "incomplete"

\* INIT.doit returns at once when the closure has completed
OnceDone(b) == b.once = "complete"

\* faulty variant: a plain flag check: nobody is held back
OnceWaits_never(b) == FALSE

\* INIT.doit holds a caller back while another thread is inside the closure
OnceWaits(b) == b.once = "running"

\* SslContext::try_new begins: init()
SslContext_try_new(b, t) ==
    BT(b, [t EXCEPT !.pc = "doit", !.calls = t.calls + 1,
                    !.waited = t.waited \/ b.once = "running"])

\* INIT.doit(|| { .. }): run the closure unless it has completed
doit(b, t) ==
    IF OnceDone(b)
    THEN BT(b, [t EXCEPT !.pc = "ctx_new"])
    ELSE BT([b EXCEPT !.once = "running"], [t EXCEPT !.pc = "lib"])

\* One step of the closure.  idx is what SSL_CTX_get_ex_new_index answers;
\* released says whether a Once whose closure failed lets a later caller in.
init(b, t, idx, released) ==
    CASE t.pc = "lib" ->
            BT([b EXCEPT !.lib = b.lib + 1], [t EXCEPT !.pc = "idx"])
      [] t.pc = "idx" ->
            IF idx >= 0
            THEN BT([b EXCEPT !.reg = b.reg + 1, !.VERIFY_IDX = idx],
                    [t EXCEPT !.pc = "locks"])
            ELSE BT([b EXCEPT !.reg = b.reg + 1,
                              !.once = IF released THEN "incomplete"
                                       ELSE "running"],
                    [t EXCEPT !.pc = "failed"])
      [] t.pc = "locks" ->
            BT([b EXCEPT !.MUTEXES = NumLocks, !.allocs = b.allocs + 1],
               [t EXCEPT !.pc = "cb1"])
      [] t.pc = "cb1" ->
            BT([b EXCEPT !.cb.locking = "locking_function",
                         !.installs = b.installs + 1],
               [t EXCEPT !.pc = "cb2"])
      [] t.pc = "cb2" ->
            BT([b EXCEPT !.cb.dyn_create = "dyn_create_function",
                         !.installs = b.installs + 1],
               [t EXCEPT !.pc = "cb3"])
      [] t.pc = "cb3" ->
            BT([b EXCEPT !.cb.dyn_lock = "dyn_lock_function",
                         !.installs = b.installs + 1],
               [t EXCEPT !.pc = "cb4"])
      [] t.pc = "cb4" ->
            BT([b EXCEPT !.cb.dyn_destroy = "dyn_destroy_function",
                         !.installs = b.installs + 1,
                         !.once = "complete"],
               [t EXCEPT !.pc = "ctx_new"])

ClosurePc == {"lib", "idx", "locks", "cb1", "cb2", "cb3", "cb4"}

\* SslContext::try_new after init(): SSL_CTX_new answered null or a context
SSL_CTX_new(b, t, null) ==
    BT(b, [t EXCEPT !.pc = "idle",
                    !.ctxs = IF null THEN t.ctxs ELSE t.ctxs + 1])

\* Ssl::try_new(ctx): SSL_new answered null or a session
Ssl_try_new(b, t, null) ==
    BT(b, [t EXCEPT !.ssls = IF null THEN t.ssls ELSE t.ssls + 1])

----------------------------------------------------------------------------
(* Certificate verification: SslContext::set_verify and the bridge          *)
(* raw_verify the engine calls during a handshake.                          *)
(*                                                                          *)
(*   cx.ctx[c].ex_data   the engine-level extension slots of context c:     *)
(*                 index -> the pointer stored there ("null": none)         *)
(*   cx.ctx[c].mode, .verify_cb   what SSL_CTX_set_verify stored            *)
(*   cx.ctx[c].latest    the callback option of the most recent set_verify  *)
(*                 (history)                                                *)
(*   cx.ssl_ctx[k]       the context session k was made from (0: no such    *)
(*                 session)                                                 *)
(*   cx.call     the last invocation of raw_verify: the session, the        *)
(*                 engine's preverify_ok, the callback invocations it made  *)
(*                 (callback, argument, result) and what it returned        *)
(*   cx.registered   what the most recent set_verify of that session's      *)
(*                 context had given when raw_verify was called (history)   *)
(***************************************************************************)

\* contexts of the process; session k, when it exists, is made from context k
NumCtx == 2

Ctx == 1..NumCtx
Ssn == Ctx

\* the functions an application may register (type VerifyCallback)
VerifyCallback == {"verify_a", "verify_b"}

\* Option<VerifyCallback> transmuted to a pointer: None is the null pointer
SomeOrNull == VerifyCallback \cup {"null"}

SslVerifyMode == {"SslVerifyPeer", "SslVerifyNone"}

\* the values the engine passes as preverify_ok
PreverifyOk == 0..1

Ctx0 ==
    [ex_data |-> [i \in 0..MaxIdx |-> "null"], mode |-> "SslVerifyNone",
     verify_cb |-> "null", latest |-> "null"]

NoCall == [ssl |-> 0, p |-> 0, invoked |-> <<>>, ret |-> 0]

Cx0 == [ctx |-> [c \in Ctx |-> Ctx0], ssl_ctx |-> [k \in Ssn |-> 0],
        call |-> NoCall, registered |-> "null"]

\* the state of the bootstrap once init() has returned with index idx
BootDone(idx) ==
    [once |-> "complete", VERIFY_IDX |-> idx, MUTEXES |-> NumLocks,
     cb |-> [locking |-> "locking_function",
             dyn_create |-> "dyn_create_function",
             dyn_lock |-> "dyn_lock_function",
             dyn_destroy |-> "dyn_destroy_function"],
     lib |-> 1, reg |-> 1, allocs |-> 1, installs |-> 4]

\* `b as c_int`, `n != 0`
as_c_int(b) == IF b THEN 1 ELSE 0
ne_zero(n) == n # 0

\* SslContext::set_verify(mode, verify) on context c
set_verify(x, VERIFY_IDX, c, mode, verify) ==
    [x EXCEPT !.ctx[c].ex_data[VERIFY_IDX] = verify,
              !.ctx[c].mode = mode,
              !.ctx[c].verify_cb = "raw_verify",
              !.ctx[c].latest = verify]

\* SSL_new(ctx.ctx) made session k from context c
SSL_new(x, k, c) == [x EXCEPT !.ssl_ctx[k] = c]

\* faulty variant: the callback is consulted but the engine's value returned
raw_verify_passthrough(x, VERIFY_IDX, k, preverify_ok, answer) ==
    LET ssl_ctx == x.ssl_ctx[k]
        verify == x.ctx[ssl_ctx].ex_data[VERIFY_IDX]
    IN  IF verify = "null"
        THEN [ssl |-> k, p |-> preverify_ok, invoked |-> <<>>,
              ret |-> preverify_ok]
        ELSE [ssl |-> k, p |-> preverify_ok,
              invoked |-> <<[cb |-> verify, arg |-> ne_zero(preverify_ok),
                             res |-> answer]>>,
              ret |-> preverify_ok]

\* raw_verify(preverify_ok, x509_ctx) for a handshake of session k; answer
\* is what the registered callback, if one is called, returns
raw_verify(x, VERIFY_IDX, k, preverify_ok, answer) ==
    LET ssl_ctx == x.ssl_ctx[k]
        verify == x.ctx[ssl_ctx].ex_data[VERIFY_IDX]
    IN  IF verify = "null"
        THEN [ssl |-> k, p |-> preverify_ok, invoked |-> <<>>,
              ret |-> preverify_ok]
        ELSE [ssl |-> k, p |-> preverify_ok,
              invoked |-> <<[cb |-> verify, arg |-> ne_zero(preverify_ok),
                             res |-> answer]>>,
              ret |-> as_c_int(answer)]

----------------------------------------------------------------------------
(* The record of the transport calls of a stream (history, SpecWire).       *)
(*                                                                          *)
(*   wire.ev      the transport calls made since the last engine attempt,   *)
(*                or since the call began if there was none: the kind       *)
(*                ("write", "flush", "read"), the bytes given to write or   *)
(*                returned by read, and the IoError answered (NoIo: Ok)     *)
(*   wire.wbio0, .rbio0   what the two BIOs held when that record began     *)
(*   wire.branch  how that engine attempt ended: "progress" or the          *)
(*                LibSslError; "none" when the call has made no attempt     *)
(*   wire.chunks  the engine write attempts of this call that accepted      *)
(*                bytes                                                     *)
(*   wire.cycles  the drains after an accepted chunk that ran to the end    *)
(*   wire.tread   the length the most recent transport read of this call    *)
(*                returned, -1 while the call has made none (recorded in    *)
(*                SpecScratch only)                                         *)
(*   wire.by      what last took bytes out of the scratch buffer since the  *)
(*                last engine attempt: "feed" (line 651, to the inbound     *)
(*                BIO), "drain" (line 664, to the transport) or "none"      *)
(*   wire.filled  the length returned by the call that filled the buffer    *)
(*                before that, and                                          *)
(*   wire.used    the number of positions of the buffer then taken          *)
(***************************************************************************)

Event(k, b, io) == [k |-> k, b |-> b, io |-> io]

Wire0 ==
    [ev |-> <<>>, wbio0 |-> <<>>, rbio0 |-> <<>>, branch |-> "none",
     chunks |-> 0, cycles |-> 0,
     tread |-> -1, by |-> "none", filled |-> 0, used |-> 0]

\* a call begins with the stream as st
WireBegin(st) == [Wire0 EXCEPT !.wbio0 = st.wbio, !.rbio0 = st.rbio]

\* the engine answered ans and left the stream as st
WireAttempt(w, st, ans) ==
    [w EXCEPT !.ev = <<>>, !.wbio0 = st.wbio, !.rbio0 = st.rbio,
              !.branch = IF ans.ret > 0 THEN "progress" ELSE ans.err,
              !.by = "none", !.filled = 0, !.used = 0,
              !.chunks = IF st.op = "write" /\ ans.ret > 0 THEN @ + 1 ELSE @]

\* one iteration of write_through on the stream st, which left it as st1
WireDrain(w, st, st1, io) ==
    LET r == MemBio_read(st.wbio, Len(st.buf))
    IN
    [w EXCEPT !.ev = IF r.some
                     THEN Append(@, Event("write", write_through_chunk(st), io))
                     ELSE @,
              !.by = IF r.some THEN "drain" ELSE @,
              !.filled = IF r.some THEN r.len ELSE @,
              !.used = IF r.some THEN Len(write_through_chunk(st)) ELSE @,
              !.cycles = IF st.cont = "write" /\ st1.pc # "wt"
                            /\ st1.drainErr = NoIo
                         THEN @ + 1 ELSE @]

WireLog(w, k, b, io) == [w EXCEPT !.ev = Append(@, Event(k, b, io))]

\* self.stream.read answered Ok(Len(bytes)) on the stream st and the slice
\* written to the inbound BIO left it as st1
WireFeed(w, st, st1, bytes) ==
    [WireLog(w, "read", bytes, NoIo) EXCEPT
        !.by = "feed", !.filled = Len(bytes),
        !.used = Len(st1.rbio) - Len(st.rbio)]

\* self.stream.read answered Ok(len)
WireRead(w, len) == [w EXCEPT !.tread = len]

----------------------------------------------------------------------------
(* The lock table: the callbacks init() installs, which the engine calls   *)
(* to serialise the use of its own state.                                   *)
(*                                                                          *)
(*   mx.m[a]      the NativeMutex at address a: .live (it exists) and       *)
(*                .owner (the thread that has locked it, 0: unlocked).      *)
(*                <<"static", n>> is element n of the vector MUTEXES points *)
(*                to, <<"dyn", h>> the box at heap address h                *)
(*   mx.held[t]   the engine's own account: the mutexes thread t has asked  *)
(*                a callback to acquire, the callback having returned, and  *)
(*                has not asked one to release since                        *)
(*   mx.handles   the handles dyn_create_function has returned and the      *)
(*                engine has not passed to dyn_destroy_function since       *)
(*   mx.freed     the handles passed to dyn_destroy_function so far         *)
(*                (history)                                                 *)
(***************************************************************************)

\* heap addresses a boxed NativeMutex may be given
MaxDyn == 2

Handle == 1..MaxDyn

\* ffi::CRYPTO_LOCK
CRYPTO_LOCK == 1

\* the modes the engine passes: CRYPTO_LOCK (1) or CRYPTO_UNLOCK (2), each
\* with CRYPTO_READ (4) or CRYPTO_WRITE (8)
LockModes == {5, 6, 9, 10}

\* a & b on c_int
RECURSIVE BitAnd(_, _)
BitAnd(a, b) ==
    IF a = 0 \/ b = 0
    THEN 0
    ELSE (a % 2) * (b % 2) + 2 * BitAnd(a \div 2, b \div 2)

StaticAddr == {<<"static", n>> : n \in 0..(NumLocks - 1)}
DynAddr == {<<"dyn", h>> : h \in Handle}
Addr == StaticAddr \cup DynAddr

NativeMutex_new == [live |-> TRUE, owner |-> 0]
NoMutex == [live |-> FALSE, owner |-> 0]

\* the mutexes when the bootstrap is as b: the vector MUTEXES points to
MxOf(b) ==
    [m |-> [a \in Addr |->
                IF a \in StaticAddr /\ a[2] < b.MUTEXES
                THEN NativeMutex_new ELSE NoMutex],
     held |-> [t \in Thread |-> {}],
     handles |-> {},
     freed |-> {}]

\* lock.lock_noguard() by thread t: blocks while the mutex is locked
lock_noguard(lock, t) ==
    [blocked |-> lock.owner # 0, lock |-> [lock EXCEPT !.owner = t]]

\* lock.unlock_noguard()
unlock_noguard(lock, t) ==
    [blocked |-> FALSE, lock |-> [lock EXCEPT !.owner = 0]]

\* faulty variant: the mode compared with CRYPTO_LOCK, not tested for its bit
inner_lock_eq(mode, lock, t) ==
    IF mode = CRYPTO_LOCK
    THEN lock_noguard(lock, t)
    ELSE unlock_noguard(lock, t)

\* if mode & ffi::CRYPTO_LOCK != 0 { lock } else { unlock }
inner_lock(mode, lock, t) ==
    IF BitAnd(mode, CRYPTO_LOCK) # 0
    THEN lock_noguard(lock, t)
    ELSE unlock_noguard(lock, t)

\* inner_lock applied to the mutex at address a
LockAt(x, t, mode, a) ==
    LET r == inner_lock(mode, x.m[a], t)
    IN  [blocked |-> r.blocked, x |-> [x EXCEPT !.m[a] = r.lock]]

\* inner_lock(mode, (*MUTEXES).get_mut(n as uint))
locking_function(x, t, mode, n) == LockAt(x, t, mode, <<"static", n>>)

\* cast::transmute(~NativeMutex::new()): the box is at address h
dyn_create_function(x, h) == [x EXCEPT !.m[<<"dyn", h>>] = NativeMutex_new]

\* inner_lock(mode, cast::transmute(l))
dyn_lock_function(x, t, mode, l) == LockAt(x, t, mode, <<"dyn", l>>)

\* let _mutex: ~NativeMutex = cast::transmute(l): the box is dropped
dyn_destroy_function(x, l) == [x EXCEPT !.m[<<"dyn", l>>] = NoMutex]

\* the engine's account of a locking callback that has returned
Noted(x, t, mode, a) ==
    [x EXCEPT !.held[t] = IF BitAnd(mode, CRYPTO_LOCK) # 0
                          THEN @ \cup {a} ELSE @ \ {a}]

----------------------------------------------------------------------------
(* Session creation: Ssl::try_new and Drop for Ssl, with the engine objects *)
(* they allocate and release.                                               *)
(*                                                                          *)
(*   heap[k]   the k-th call of Ssl::try_new: what it returned ("none": not *)
(*             yet called), the state of the SSL handle and of the two BIOs *)
(*             it allocated ("none", "live", "freed"), how often each has   *)
(*             been released, whether SSL_set_bio has attached the BIOs to  *)
(*             the handle, and whether the Ssl it returned has been dropped *)
(***************************************************************************)

\* calls of Ssl::try_new the process makes
MaxSsls == 3

NoSession ==
    [result |-> "none", ssl |-> "none", rbio |-> "none", wbio |-> "none",
     ssl_free |-> 0, rbio_free |-> 0, wbio_free |-> 0,
     attached |-> FALSE, dropped |-> FALSE]

Heap0 == [k \in 1..MaxSsls |-> NoSession]

\* ffi::SSL_free: releases the handle and the BIOs attached to it
SSL_free(h) ==
    [h EXCEPT !.ssl = "freed", !.ssl_free = @ + 1,
              !.rbio = IF h.attached THEN "freed" ELSE @,
              !.rbio_free = IF h.attached THEN @ + 1 ELSE @,
              !.wbio = IF h.attached THEN "freed" ELSE @,
              !.wbio_free = IF h.attached THEN @ + 1 ELSE @]

\* ffi::BIO_free_all(rbio)
BIO_free_all(h) == [h EXCEPT !.rbio = "freed", !.rbio_free = @ + 1]

\* Drop for Ssl
Ssl_drop(h) == SSL_free(h)

\* faulty variant: the inbound BIO is not released when the outbound fails
Ssl_try_new_leak(ssl_null, rbio_null, wbio_null) ==
    LET h1 == [NoSession EXCEPT !.ssl = "live"]
        h2 == [h1 EXCEPT !.rbio = "live"]
        h3 == [h2 EXCEPT !.wbio = "live"]
    IN  CASE ssl_null -> [NoSession EXCEPT !.result = "Err"]
          [] ~ssl_null /\ rbio_null -> [Ssl_drop(h1) EXCEPT !.result = "Err"]
          [] ~ssl_null /\ ~rbio_null /\ wbio_null ->
                [Ssl_drop(h2) EXCEPT !.result = "Err"]
          [] OTHER -> [h3 EXCEPT !.attached = TRUE, !.result = "Ok"]

\* Ssl::try_new(ctx): SSL_new, BIO_new and BIO_new answer null or an object;
\* every return of Err drops the Ssl that wraps the handle
Ssl_try_new_alloc(ssl_null, rbio_null, wbio_null) ==
    LET h1 == [NoSession EXCEPT !.ssl = "live"]
        h2 == [h1 EXCEPT !.rbio = "live"]
        h3 == [h2 EXCEPT !.wbio = "live"]
    IN  CASE ssl_null -> [NoSession EXCEPT !.result = "Err"]
          [] ~ssl_null /\ rbio_null -> [Ssl_drop(h1) EXCEPT !.result = "Err"]
          [] ~ssl_null /\ ~rbio_null /\ wbio_null ->
                [Ssl_drop(BIO_free_all(h2)) EXCEPT !.result = "Err"]
          [] OTHER -> [h3 EXCEPT !.attached = TRUE, !.result = "Ok"]

AuxInit == cx = Cx0 /\ wire = Wire0 /\ heap = Heap0 /\ mx = MxOf(boot)

----------------------------------------------------------------------------
(* The task that uses a stream (SpecDuplex) *)

NoApp ==
    [msg |-> <<>>, sent |-> <<>>, rcvd |-> <<>>, step |-> "none", reads |-> 0]

----------------------------------------------------------------------------
(* Spec: one stream over an arbitrary engine and an arbitrary transport *)

Side == {"a"}

Init ==
    /\ ad = [s \in Side |-> NoStream]
    /\ pipe = [s \in Side |-> <<>>]
    /\ app = [s \in Side |-> NoApp]
    /\ boot = Boot0
    /\ th = [t \in Thread |-> Thread0]
    /\ AuxInit

Set(s, st) ==
    /\ ad' = [ad EXCEPT ![s] = st]
    /\ UNCHANGED <<pipe, app, bootVars, auxVars>>

CallTryNew(s) ==
    /\ ad[s].pc = "new"
    /\ Set(s, try_new(ad[s]))

CallRead(s) ==
    /\ ad[s].pc = "idle"
    /\ \E cap \in 1..MaxLen : Set(s, Reader_read(ad[s], cap))

CallWrite(s) ==
    /\ ad[s].pc = "idle"
    /\ \E b \in SeqsUpTo(Byte, MaxLen) : Set(s, Writer_write(ad[s], b))

CallFlush(s) ==
    /\ ad[s].pc = "idle"
    /\ Set(s, Writer_flush(ad[s]))

CallRenegotiate(s) ==
    /\ ad[s].pc = "idle"
    /\ Set(s, renegotiate(ad[s]))

EngineAttempt(s) ==
    /\ ad[s].pc = "blk"
    /\ \E ans \in EngineAnswers(ad[s]) : Set(s, attempt(ad[s], ans))

Drain(s) ==
    /\ ad[s].pc = "wt"
    /\ \E io \in TransportAnswers : Set(s, write_through(ad[s], io))

TransportFlush(s) ==
    /\ ad[s].pc = "sflush"
    /\ \E io \in TransportAnswers : Set(s, stream_flush(ad[s], io))

TransportRead(s) ==
    /\ ad[s].pc = "sread"
    /\ \/ \E bytes \in ReadChunks(ad[s]) : Set(s, stream_read(ad[s], NoIo, bytes))
       \/ \E io \in IoErrors : Set(s, stream_read(ad[s], io, <<>>))

Next ==
    \E s \in Side :
        \/ CallTryNew(s)
        \/ CallRead(s)
        \/ CallWrite(s)
        \/ CallFlush(s)
        \/ CallRenegotiate(s)
        \/ EngineAttempt(s)
        \/ Drain(s)
        \/ TransportFlush(s)
        \/ TransportRead(s)

Spec == Init /\ [][Next]_vars

----------------------------------------------------------------------------
(* SpecInit: threads that race through init() and create contexts *)

SetBoot(t, r) ==
    /\ boot' = r.b
    /\ th' = [th EXCEPT ![t] = r.t]
    /\ UNCHANGED <<streamVars, auxVars>>

CallContextNew(t) ==
    /\ th[t].pc = "idle"
    /\ th[t].calls < MaxCalls
    /\ SetBoot(t, SslContext_try_new(boot, th[t]))

OnceDoit(t) ==
    /\ th[t].pc = "doit"
    /\ OnceDone(boot) \/ ~OnceWaits(boot)
    /\ SetBoot(t, doit(boot, th[t]))

InitStep(t) ==
    /\ th[t].pc \in ClosurePc
    /\ \E idx \in -1..MaxIdx, released \in BOOLEAN :
            SetBoot(t, init(boot, th[t], idx, released))

ContextNew(t) ==
    /\ th[t].pc = "ctx_new"
    /\ \E null \in BOOLEAN : SetBoot(t, SSL_CTX_new(boot, th[t], null))

SessionNew(t) ==
    /\ th[t].pc = "idle"
    /\ th[t].ctxs > 0
    /\ th[t].ssls < th[t].ctxs
    /\ \E null \in BOOLEAN : SetBoot(t, Ssl_try_new(boot, th[t], null))

NextInit ==
    \E t \in Thread :
        \/ CallContextNew(t)
        \/ OnceDoit(t)
        \/ InitStep(t)
        \/ ContextNew(t)
        \/ SessionNew(t)

SpecInit == Init /\ [][NextInit]_vars

----------------------------------------------------------------------------
(* SpecDuplex: two streams wired back to back through an in-memory duplex   *)
(* transport, over an engine that keeps the order of the bytes.  The task   *)
(* of each side constructs its stream, writes its message in one call and   *)
(* then reads until it holds as many bytes as its peer wrote.  Side "a"     *)
(* sends any message up to MaxLen bytes, side "b" answers with at most one  *)
(* byte, so that ciphertext travels both ways at once.                      *)
(*   app[s].msg    the message side s writes                                *)
(*   app[s].sent   the bytes of it the engine of side s has accepted        *)
(*   app[s].rcvd   the bytes the read calls of side s have returned         *)
(*   app[s].step   "connect", "write", "read", "done"                       *)
(*   app[s].reads  the number of read calls that returned bytes             *)
(***************************************************************************)

DSide == {"a", "b"}
Peer(s) == IF s = "a" THEN "b" ELSE "a"

\* the record cipher of the order-keeping engine, and its handshake byte
Enc(b) == 1 - b
Dec(c) == 1 - c
Hello == Cardinality(Byte)

EncSeq(q) == [i \in 1..Len(q) |-> Enc(q[i])]
DecSeq(q) == [i \in 1..Len(q) |-> Dec(q[i])]
IsData(c) == c # Hello

\* the plaintext carried by a stretch of ciphertext
Plain(q) == DecSeq(SelectSeq(q, IsData))

\* The answers of the order-keeping engine.  connect sends one handshake
\* byte and completes once the peer's has arrived; write encrypts a prefix
\* of what it is given; read decrypts what the inbound BIO holds, up to the
\* caller's buffer.
DuplexAnswers(st) ==
    LET hello == IF st.hs = "start" THEN <<Hello>> ELSE <<>>
        arg == blk_arg(st)
    IN  CASE st.op = "connect" ->
                IF st.rbio # <<>>
                THEN {Answer(1, "ErrorNone", 0, <<>>, hello, 1, "done")}
                ELSE {Answer(-1, "ErrorWantRead", 0, <<>>, hello, 0, "sent")}
          [] st.op = "read" ->
                IF st.rbio = <<>>
                THEN {Answer(-1, "ErrorWantRead", 0, <<>>, <<>>, 0, st.hs)}
                ELSE {Answer(n, "ErrorNone", 0,
                             DecSeq(SubSeq(st.rbio, 1, n)), <<>>, n, st.hs) :
                        n \in 1..Min(Len(st.rbio), st.rcap)}
          [] st.op = "write" ->
                {Answer(n, "ErrorNone", 0, <<>>,
                        EncSeq(SubSeq(arg, 1, n)), 0, st.hs) :
                    n \in 1..Len(arg)}

\* the task's record after an engine attempt that left the stream as st:
\* the bytes accepted so far in its write call, and the bytes a read call
\* that has just returned hands to it
Deliver(a, st) ==
    CASE st.op = "write" -> [a EXCEPT !.sent = st.acc]
      [] st.pc = "idle" /\ st.op = "read" /\ st.res.kind = "Ok" ->
            [a EXCEPT !.rcvd = a.rcvd \o st.res.data, !.reads = a.reads + 1]
      [] OTHER -> a

InitDuplex ==
    /\ ad = [s \in DSide |-> NoStream]
    /\ pipe = [s \in DSide |-> <<>>]
    /\ \E m \in SeqsUpTo(Byte, MaxLen), r \in SeqsUpTo(Byte, 1) :
            app = [s \in DSide |->
                    [NoApp EXCEPT !.msg = IF s = "a" THEN m ELSE r,
                                  !.step = "connect"]]
    /\ boot = Boot0
    /\ th = [t \in Thread |-> Thread0]
    /\ AuxInit

DSet(s, st, a) ==
    /\ ad' = [ad EXCEPT ![s] = st]
    /\ app' = [app EXCEPT ![s] = a]
    /\ UNCHANGED <<bootVars, auxVars>>

Step(a, step) == [a EXCEPT !.step = step]

DTryNew(s) ==
    /\ app[s].step = "connect" /\ ad[s].pc = "new"
    /\ DSet(s, try_new(ad[s]), Step(app[s], "write"))
    /\ UNCHANGED pipe

DWrite(s) ==
    /\ app[s].step = "write" /\ ad[s].pc = "idle"
    /\ DSet(s, Writer_write(ad[s], app[s].msg), Step(app[s], "read"))
    /\ UNCHANGED pipe

DRead(s) ==
    /\ app[s].step = "read" /\ ad[s].pc = "idle"
    /\ Len(app[s].rcvd) < Len(app[Peer(s)].msg)
    /\ \E cap \in 1..MaxLen : DSet(s, Reader_read(ad[s], cap), app[s])
    /\ UNCHANGED pipe

DDone(s) ==
    /\ app[s].step = "read" /\ ad[s].pc = "idle"
    /\ Len(app[s].rcvd) = Len(app[Peer(s)].msg)
    /\ DSet(s, ad[s], Step(app[s], "done"))
    /\ UNCHANGED pipe

DEngineAttempt(s) ==
    /\ ad[s].pc = "blk"
    /\ \E ans \in DuplexAnswers(ad[s]) :
            DSet(s, attempt(ad[s], ans),
                 Deliver(app[s], attempt(ad[s], ans)))
    /\ UNCHANGED pipe

\* the pipe takes every chunk whole and never fails
DDrain(s) ==
    /\ ad[s].pc = "wt"
    /\ DSet(s, write_through(ad[s], NoIo), app[s])
    /\ pipe' = [pipe EXCEPT ![Peer(s)] = @ \o write_through_chunk(ad[s])]

DTransportFlush(s) ==
    /\ ad[s].pc = "sflush"
    /\ DSet(s, stream_flush(ad[s], NoIo), app[s])
    /\ UNCHANGED pipe

\* a read of the pipe blocks while it is empty and then returns a chunk of
\* any size from one byte up
DTransportRead(s) ==
    /\ ad[s].pc = "sread"
    /\ \E n \in 1..Min(Len(pipe[s]), Len(ad[s].buf)) :
            /\ DSet(s, stream_read(ad[s], NoIo, SubSeq(pipe[s], 1, n)),
                    app[s])
            /\ pipe' = [pipe EXCEPT ![s] = SubSeq(@, n + 1, Len(@))]

NextDuplex ==
    \E s \in DSide :
        \/ DTryNew(s)
        \/ DWrite(s)
        \/ DRead(s)
        \/ DDone(s)
        \/ DEngineAttempt(s)
        \/ DDrain(s)
        \/ DTransportFlush(s)
        \/ DTransportRead(s)

SpecDuplex == InitDuplex /\ [][NextDuplex]_vars

----------------------------------------------------------------------------
(* SpecVerify: contexts whose verification is configured and reconfigured,  *)
(* sessions made from them, and the engine calling raw_verify for them.     *)
(* init() has completed, as it has whenever a context exists.               *)

InitVerify ==
    /\ ad = [s \in Side |-> NoStream]
    /\ pipe = [s \in Side |-> <<>>]
    /\ app = [s \in Side |-> NoApp]
    /\ \E idx \in 0..MaxIdx : boot = BootDone(idx)
    /\ th = [t \in Thread |-> Thread0]
    /\ AuxInit

SetCx(x) ==
    /\ cx' = x
    /\ UNCHANGED <<streamVars, bootVars, wire, heap, mx>>

\* a context exists only once init() has returned
CallSetVerify(c) ==
    /\ OnceDone(boot)
    /\ \E mode \in SslVerifyMode, verify \in SomeOrNull :
            SetCx(set_verify(cx, boot.VERIFY_IDX, c, mode, verify))

SessionFrom(k) ==
    /\ cx.ssl_ctx[k] = 0
    /\ SetCx(SSL_new(cx, k, k))

\* the engine calls the function SSL_CTX_set_verify was given
EngineVerify(k) ==
    /\ cx.ssl_ctx[k] # 0
    /\ cx.ctx[cx.ssl_ctx[k]].verify_cb = "raw_verify"
    /\ \E p \in PreverifyOk, answer \in BOOLEAN :
            SetCx([cx EXCEPT
                    !.call = raw_verify(cx, boot.VERIFY_IDX, k, p, answer),
                    !.registered = cx.ctx[cx.ssl_ctx[k]].latest])

NextVerify ==
    \/ \E c \in Ctx : CallSetVerify(c)
    \/ \E k \in Ssn : SessionFrom(k)
    \/ \E k \in Ssn : EngineVerify(k)

SpecVerify == InitVerify /\ [][NextVerify]_vars

----------------------------------------------------------------------------
(* SpecSession: sessions are created from a context, any allocation of the  *)
(* engine may fail, and the sessions that were created are dropped.         *)

SetHeap(k, h) ==
    /\ heap' = [heap EXCEPT ![k] = h]
    /\ UNCHANGED <<streamVars, bootVars, cx, wire, mx>>

SessionTryNew(k) ==
    /\ heap[k].result = "none"
    /\ \E ssl_null, rbio_null, wbio_null \in BOOLEAN :
            SetHeap(k, Ssl_try_new_alloc(ssl_null, rbio_null, wbio_null))

SessionDrop(k) ==
    /\ heap[k].result = "Ok"
    /\ ~heap[k].dropped
    /\ SetHeap(k, [Ssl_drop(heap[k]) EXCEPT !.dropped = TRUE])

NextSession ==
    \E k \in 1..MaxSsls :
        \/ SessionTryNew(k)
        \/ SessionDrop(k)

SpecSession == InitVerify /\ [][NextSession]_vars

----------------------------------------------------------------------------
(* SpecLocks: the engine's threads call the locking callbacks init() has    *)
(* installed.  The engine asks for the release of a mutex only from the     *)
(* thread it has seen acquire it, and destroys a dynamic lock only when no  *)
(* thread has it; it may ask for any mutex to be acquired at any time, and  *)
(* the callback returns when the mutex has been locked.                     *)

\* init() has returned; the index it registered plays no part here
InitLocks ==
    /\ ad = [s \in Side |-> NoStream]
    /\ pipe = [s \in Side |-> <<>>]
    /\ app = [s \in Side |-> NoApp]
    /\ boot = BootDone(0)
    /\ th = [t \in Thread |-> Thread0]
    /\ AuxInit

SetMx(x) ==
    /\ mx' = x
    /\ UNCHANGED <<streamVars, bootVars, cx, wire, heap>>

\* the engine may make the call: a release is of a mutex the thread has
MayCall(t, mode, a) ==
    BitAnd(mode, CRYPTO_LOCK) = 0 => a \in mx.held[t]

CallLocking(t) ==
    /\ boot.cb.locking = "locking_function"
    /\ \E mode \in LockModes, n \in 0..(boot.MUTEXES - 1) :
            /\ MayCall(t, mode, <<"static", n>>)
            /\ ~locking_function(mx, t, mode, n).blocked
            /\ SetMx(Noted(locking_function(mx, t, mode, n).x,
                           t, mode, <<"static", n>>))

CallDynCreate(t) ==
    /\ boot.cb.dyn_create = "dyn_create_function"
    /\ \E h \in Handle :
            /\ ~mx.m[<<"dyn", h>>].live
            /\ SetMx([dyn_create_function(mx, h) EXCEPT
                        !.handles = @ \cup {h}])

CallDynLock(t) ==
    /\ boot.cb.dyn_lock = "dyn_lock_function"
    /\ \E mode \in LockModes, l \in mx.handles :
            /\ MayCall(t, mode, <<"dyn", l>>)
            /\ ~dyn_lock_function(mx, t, mode, l).blocked
            /\ SetMx(Noted(dyn_lock_function(mx, t, mode, l).x,
                           t, mode, <<"dyn", l>>))

CallDynDestroy(t) ==
    /\ boot.cb.dyn_destroy = "dyn_destroy_function"
    /\ \E l \in mx.handles :
            /\ \A u \in Thread : <<"dyn", l>> \notin mx.held[u]
            /\ SetMx([dyn_destroy_function(mx, l) EXCEPT
                        !.handles = @ \ {l}, !.freed = @ \cup {l}])

NextLocks ==
    \E t \in Thread :
        \/ CallLocking(t)
        \/ CallDynCreate(t)
        \/ CallDynLock(t)
        \/ CallDynDestroy(t)

SpecLocks == InitLocks /\ [][NextLocks]_vars

----------------------------------------------------------------------------
(* SpecWire: one stream over an arbitrary engine and an arbitrary           *)
(* transport, as in Spec, with every transport call recorded.  The engine   *)
(* may leave one byte more in the outbound BIO than the scratch buffer      *)
(* holds, so that a drain takes more than one transport write.  What does   *)
(* not bear on the transport calls is kept small: the plaintext is all      *)
(* zeros, the engine has one diagnostic, of the statuses the retry loop     *)
(* does not handle the engine answers ErrorSyscall only, and ciphertext is  *)
(* told apart by its length and by the order of its bytes, which alternate. *)

Zeros(n) == [i \in 1..n |-> 0]

\* k alternating bytes, as they follow `from` earlier ones
Alt(from, k) == [i \in 1..k |-> (from + i) % 2]

\* the chunks a transport read places in the scratch buffer
WireChunks(st) == {Alt(0, k) : k \in 0..Len(st.buf)}

WireStatuses ==
    {"ErrorNone", "ErrorSsl", "ErrorWantRead", "ErrorWantWrite",
     "ErrorZeroReturn", "ErrorSyscall"}

WireAnswers(st) ==
    {a \in EngineAnswersWith(st, {Alt(Len(st.wbio), k) :
                                    k \in 0..(BufSize + 1 - Len(st.wbio))}) :
        /\ a.data = Zeros(Len(a.data))
        /\ a.diag <= 1
        /\ a.err \in WireStatuses}

WSet(s, st, w) ==
    /\ ad' = [ad EXCEPT ![s] = st]
    /\ wire' = w
    /\ UNCHANGED <<pipe, app, bootVars, cx, heap, mx>>

WCallTryNew(s) ==
    /\ ad[s].pc = "new"
    /\ WSet(s, try_new(ad[s]), WireBegin(try_new(ad[s])))

WCallRead(s) ==
    /\ ad[s].pc = "idle"
    /\ \E cap \in 1..MaxLen :
            WSet(s, Reader_read(ad[s], cap), WireBegin(ad[s]))

WCallWrite(s) ==
    /\ ad[s].pc = "idle"
    /\ \E n \in 0..MaxLen :
            WSet(s, Writer_write(ad[s], Zeros(n)), WireBegin(ad[s]))

WCallFlush(s) ==
    /\ ad[s].pc = "idle"
    /\ WSet(s, Writer_flush(ad[s]), WireBegin(ad[s]))

WCallRenegotiate(s) ==
    /\ ad[s].pc = "idle"
    /\ WSet(s, renegotiate(ad[s]), WireBegin(ad[s]))

WEngineAttempt(s) ==
    /\ ad[s].pc = "blk"
    /\ \E ans \in WireAnswers(ad[s]) :
            WSet(s, attempt(ad[s], ans),
                 WireAttempt(wire, attempt(ad[s], ans), ans))

WDrain(s) ==
    /\ ad[s].pc = "wt"
    /\ \E io \in TransportAnswers :
            WSet(s, write_through(ad[s], io),
                 WireDrain(wire, ad[s], write_through(ad[s], io), io))

WTransportFlush(s) ==
    /\ ad[s].pc = "sflush"
    /\ \E io \in TransportAnswers :
            WSet(s, stream_flush(ad[s], io), WireLog(wire, "flush", <<>>, io))

WTransportRead(s) ==
    /\ ad[s].pc = "sread"
    /\ \/ \E bytes \in WireChunks(ad[s]) :
            WSet(s, stream_read(ad[s], NoIo, bytes),
                 WireFeed(wire, ad[s], stream_read(ad[s], NoIo, bytes), bytes))
       \/ \E io \in IoErrors :
            WSet(s, stream_read(ad[s], io, <<>>),
                 WireLog(wire, "read", <<>>, io))

NextWire ==
    \E s \in Side :
        \/ WCallTryNew(s)
        \/ WCallRead(s)
        \/ WCallWrite(s)
        \/ WCallFlush(s)
        \/ WCallRenegotiate(s)
        \/ WEngineAttempt(s)
        \/ WDrain(s)
        \/ WTransportFlush(s)
        \/ WTransportRead(s)

SpecWire == Init /\ [][NextWire]_vars

\* The steps of a call in progress.  The task that made the call keeps
\* running, and the engine and the transport answer every call made to
\* them: a call in progress takes its next step.
LoopStep ==
    \E s \in Side :
        \/ WEngineAttempt(s)
        \/ WDrain(s)
        \/ WTransportFlush(s)
        \/ WTransportRead(s)

SpecWireFair == Init /\ [][NextWire]_vars /\ WF_vars(LoopStep)

----------------------------------------------------------------------------
(* SpecScratch: SpecWire with the length returned by the call's most recent *)
(* transport read recorded as well                                          *)

STransportRead(s) ==
    /\ ad[s].pc = "sread"
    /\ \/ \E bytes \in WireChunks(ad[s]) :
            WSet(s, stream_read(ad[s], NoIo, bytes),
                 WireRead(WireFeed(wire, ad[s],
                                   stream_read(ad[s], NoIo, bytes), bytes),
                          Len(bytes)))
       \/ \E io \in IoErrors :
            WSet(s, stream_read(ad[s], io, <<>>),
                 WireLog(wire, "read", <<>>, io))

NextScratch ==
    \E s \in Side :
        \/ WCallTryNew(s)
        \/ WCallRead(s)
        \/ WCallWrite(s)
        \/ WCallFlush(s)
        \/ WCallRenegotiate(s)
        \/ WEngineAttempt(s)
        \/ WDrain(s)
        \/ WTransportFlush(s)
        \/ STransportRead(s)

SpecScratch == Init /\ [][NextScratch]_vars

----------------------------------------------------------------------------
(* Properties of the stream adapter (Spec) *)

IsPrefix(p, q) == Len(p) <= Len(q) /\ p = SubSeq(q, 1, Len(p))

\* the last call on this stream has returned or has failed the task
Ended(st) == st.op # "none" /\ st.pc \in {"idle", "new", "dead"}

\* no engine attempt of the call has ended in an error
NoEngineError(st) ==
    st.last \in {"none", "progress", "ErrorWantRead", "ErrorWantWrite"}

\* every write attempt is handed the suffix after the bytes accepted so far,
\* and the accepted chunks, concatenated, are a prefix of the caller's buffer
WriteSlices(st) ==
    /\ st.last # "none" => st.given = slice_from(st.wbuf, st.givenAt)
    /\ IsPrefix(st.acc, st.wbuf)

\* C1 as stated: in a write call without an engine error each attempt gets
\* the suffix at the sum of the accepted counts, and write returns success
\* exactly when that sum is the length of the buffer.
C1_SuccessIffAllAccepted ==
    \A s \in DOMAIN ad :
        LET st == ad[s]
        IN  (st.op = "write" /\ NoEngineError(st)) =>
                /\ WriteSlices(st)
                /\ Ended(st) =>
                      (st.res.kind = "Ok" <=> Len(st.acc) = Len(st.wbuf))

\* C1 amended: in a write call without an engine error each attempt gets the
\* suffix at the sum of the accepted counts and the accepted chunks make up a
\* prefix of the buffer; write returns success only when the sum is the
\* length of the buffer, and it does so unless the drain that follows an
\* accepted chunk fails, in which case write returns that transport error.
C1_WriteOffsets ==
    \A s \in DOMAIN ad :
        LET st == ad[s]
        IN  (st.op = "write" /\ NoEngineError(st)) =>
                /\ WriteSlices(st)
                /\ Ended(st) =>
                      /\ st.res.kind = "Ok" => st.acc = st.wbuf
                      /\ (Len(st.acc) = Len(st.wbuf) /\ st.drainErr = NoIo)
                            => st.res = ResOk
                      /\ st.drainErr # NoIo => st.res = ResIoErr(st.drainErr)

\* a write of a full-length buffer succeeded after a partial write
C1_Witness ==
    \E s \in DOMAIN ad :
        LET st == ad[s]
        IN  /\ Ended(st) /\ st.op = "write" /\ st.res = ResOk
            /\ Len(st.wbuf) = MaxLen /\ st.givenAt > 0 /\ st.acc = st.wbuf

\* C3: a read call to which the session reports a clean close, and every read
\* call begun after that, returns EndOfFile.
C3_ClosedReadsEof ==
    \A s \in DOMAIN ad :
        LET st == ad[s]
        IN  (Ended(st) /\ st.op = "read"
                /\ (st.last = "ErrorZeroReturn" \/ st.lateRead))
            => st.res = ResIoErr(SessionClosedEof)

\* a read call begun after the close was reported has returned EndOfFile
C3_Witness ==
    \E s \in DOMAIN ad :
        LET st == ad[s]
        IN  /\ Ended(st) /\ st.op = "read" /\ st.lateRead
            /\ st.res = ResIoErr(SessionClosedEof)

\* C4: a write call to which the session reports a clean close returns an
\* error to its caller.
C4_WriteClosedIsError ==
    \A s \in DOMAIN ad :
        LET st == ad[s]
        IN  (Ended(st) /\ st.op = "write" /\ st.last = "ErrorZeroReturn")
            => st.res.kind = "Err"

\* C5: a read call to which the engine reports a protocol error returns an
\* error, and not the end of the stream.
C5_ReadProtocolError ==
    \A s \in DOMAIN ad :
        LET st == ad[s]
        IN  (Ended(st) /\ st.op = "read" /\ st.last = "ErrorSsl")
            => /\ st.res.kind = "Err"
               /\ st.res.io # SessionClosedEof

\* C6: a transport error raised inside the retry loop of a write call is what
\* write returns.
C6_WriteTransportError ==
    \A s \in DOMAIN ad :
        LET st == ad[s]
        IN  (Ended(st) /\ st.op = "write" /\ st.tErr # NoIo)
            => st.res = ResIoErr(st.tErr)

\* C7: a transport error raised inside the retry loop comes back from
\* try_new as StreamError of that error, which is no OpenSslErrors, and from
\* read as that error, which is not the EndOfFile of a closed session.
C7_TransportErrorSurfaces ==
    \A s \in DOMAIN ad :
        LET st == ad[s]
        IN  (Ended(st) /\ st.tErr # NoIo) =>
                /\ st.op = "connect" =>
                      /\ st.res = ResSslErr(StreamError(st.tErr))
                      /\ st.res.ssl.tag # "OpenSslErrors"
                      /\ st.pc = "new"
                /\ st.op = "read" =>
                      /\ st.res = ResIoErr(st.tErr)
                      /\ st.res.io # SessionClosedEof

\* after a handshake that failed with a transport error, a read on a later
\* stream has returned the transport's own EndOfFile error
C7_Witness ==
    \E s \in DOMAIN ad, e \in IoErrors :
        LET st == ad[s]
        IN  /\ st.hsT /\ Ended(st) /\ st.op = "read"
            /\ e.kind = "EndOfFile" /\ st.tErr = e /\ st.res = ResIoErr(e)

\* C8: every invocation of the retry loop that ends returns success, the
\* closed session, a protocol error or a transport error.
C8_LoopEndsByReturn ==
    \A s \in DOMAIN ad :
        ad[s].loopEnd \in {"none", "success", "closed", "protocol", "transport"}

\* the caller holds a stream: one was constructed, and if the task has
\* failed it did so in a later call
Handed(st) == st.pc # "new" /\ ~(st.op = "connect" /\ st.pc # "idle")

\* C12: whenever the caller holds a stream, and so whenever a read, write,
\* flush or renegotiate call has been made, the engine has completed the
\* handshake; and a construction in which the engine aborted the handshake
\* has returned a protocol error and handed out no stream.
C12_NoStreamWithoutHandshake ==
    \A s \in DOMAIN ad :
        LET st == ad[s]
        IN  /\ Handed(st) => st.hs = "done"
            /\ st.op \notin {"none", "connect"} => st.hs = "done"
            /\ (st.op = "connect" /\ st.last = "ErrorSsl") =>
                    /\ ~Handed(st)
                    /\ \E d \in Diag : st.res = ResSslErr(OpenSslErrors(d))

\* after a transport round trip the engine aborted the handshake, and the
\* construction returned the protocol error
C12_Witness ==
    \E s \in DOMAIN ad :
        LET st == ad[s]
        IN  /\ st.op = "connect" /\ st.last = "ErrorSsl" /\ st.pc = "new"
            /\ st.rbio = <<>> /\ st.buf # ZeroBuf
            /\ st.res = ResSslErr(OpenSslErrors(2))

\* C13: a renegotiate call whose retry loop has returned has handed its
\* caller a boolean and no error: true when the loop ended with the
\* handshake completed, false when it ended with the closed session, a
\* protocol error or a transport error; and true is never returned otherwise.
C13_RenegotiateBool ==
    \A s \in DOMAIN ad :
        LET st == ad[s]
        IN  st.op = "renegotiate" =>
                /\ st.loopEnd \in {"success", "closed", "protocol", "transport"}
                        => /\ st.pc = "idle"
                           /\ st.res = ResBool(st.loopEnd = "success")
                /\ st.res.kind = "true" =>
                        st.loopEnd = "success" /\ st.last = "progress"
                /\ st.res.kind \notin {"Ok", "Err"}

\* a renegotiation that met a transport error has returned false
C13_Witness ==
    \E s \in DOMAIN ad :
        LET st == ad[s]
        IN  /\ st.op = "renegotiate" /\ st.pc = "idle"
            /\ st.loopEnd = "transport" /\ st.tErr # NoIo
            /\ st.res = ResBool(FALSE)

----------------------------------------------------------------------------
(* Properties of the round trip (SpecDuplex) *)

AllDone == \A s \in DOMAIN app : app[s].step = "done"

\* C2: what the read calls of a side have returned, followed by the
\* plaintext still under way to it (in its inbound BIO, in the pipe, in the
\* writer's outbound BIO), is at every moment exactly what the engine of its
\* peer has accepted, which is a prefix of the peer's message; a side that is
\* done holds the whole message; and the two tasks never get stuck before
\* both are done.
C2_RoundTrip ==
    /\ \A s \in DOMAIN app :
        LET p == Peer(s)
        IN  app[s].step # "none" =>
            /\ app[p].rcvd \o Plain(ad[p].rbio) \o Plain(pipe[p])
                    \o Plain(ad[s].wbio) = app[s].sent
            /\ IsPrefix(app[s].sent, app[s].msg)
            /\ IsPrefix(app[p].rcvd, app[s].msg)
            /\ app[p].step = "done" => app[p].rcvd = app[s].msg
    /\ (\E s \in DOMAIN app : app[s].step # "none") =>
            (AllDone \/ ENABLED NextDuplex)

\* both sides are done: "b" holds a message of the full length with two
\* different bytes, delivered by more than one read, and "a" holds the answer
C2_Witness ==
    /\ DOMAIN app = DSide
    /\ AllDone
    /\ Len(app["a"].msg) = MaxLen
    /\ \E i, j \in 1..MaxLen : app["a"].msg[i] # app["a"].msg[j]
    /\ Len(app["b"].msg) = 1
    /\ \A s \in DSide : app[s].rcvd = app[Peer(s)].msg
    /\ app["b"].reads > 1

----------------------------------------------------------------------------
(* Properties of the bootstrap (SpecInit) *)

NoFailure == \A t \in DOMAIN th : th[t].pc # "failed"

\* everything init() sets up is in place
BootComplete ==
    /\ boot.once = "complete"
    /\ boot.VERIFY_IDX >= 0
    /\ boot.MUTEXES = NumLocks
    /\ \A k \in DOMAIN boot.cb : boot.cb[k] # "null"

C10_BootBeforeObjects ==
    \A t \in DOMAIN th :
        (th[t].pc = "ctx_new" \/ th[t].ctxs > 0 \/ th[t].ssls > 0)
            => BootComplete

\* a thread that lost the race holds a context and a session
C10_Witness ==
    \E t \in DOMAIN th :
        th[t].waited /\ th[t].calls = 1 /\ th[t].ctxs > 0 /\ th[t].ssls > 0

----------------------------------------------------------------------------
(* Properties of the verification bridge (SpecVerify) *)

\* C11: the last invocation of raw_verify, made for a session of context C
\* with the engine's value p: when the most recent set_verify of C gave a
\* callback, that callback was called exactly once, with p as a boolean, and
\* what it answered is what raw_verify returned; when it gave none, nothing
\* was called and raw_verify returned p.
C11_BridgeReturnsCallback ==
    LET call == cx.call
    IN  call.ssl # 0 =>
            LET latest == cx.registered
            IN  IF latest = "null"
                THEN call.invoked = <<>> /\ call.ret = call.p
                ELSE /\ Len(call.invoked) = 1
                     /\ call.invoked[1].cb = latest
                     /\ call.invoked[1].arg = (call.p = 1)
                     /\ call.ret = 1 <=> call.invoked[1].res
                     /\ call.ret = 0 <=> ~call.invoked[1].res

\* the callback registered by a second set_verify of the session's context,
\* while the other context has another one, has overruled the engine's value
C11_Witness ==
    LET call == cx.call
    IN  /\ call.ssl # 0
        /\ \E c \in Ctx :
              /\ c = cx.ssl_ctx[call.ssl]
              /\ cx.registered = "verify_b"
              /\ cx.ctx[c].latest = "verify_b"
              /\ \E d \in Ctx \ {c} : cx.ctx[d].latest = "verify_a"
        /\ Len(call.invoked) = 1 /\ call.invoked[1].cb = "verify_b"
        /\ call.p = 1 /\ call.ret = 0

----------------------------------------------------------------------------
(* Properties of the transport calls (SpecWire) *)

IsWrite(e) == e.k = "write"
IsFlush(e) == e.k = "flush"
IsRead(e) == e.k = "read"
Failed(e) == e.io # NoIo

\* the bytes of a sequence of transport calls, in order
RECURSIVE Cat(_)
Cat(ev) == IF ev = <<>> THEN <<>> ELSE Head(ev).b \o Cat(Tail(ev))

\* the stream of side "a" and what it has asked of its transport
TheStream == ad["a"]

\* a flush call that found the outbound BIO empty
EmptyFlush == TheStream.op = "flush" /\ wire.wbio0 = <<>>

\* C14 as stated: a flush call that finds the outbound BIO empty writes
\* nothing to the transport and does not return an error.
C14_EmptyFlushNeverErrs ==
    EmptyFlush =>
        /\ SelectSeq(wire.ev, IsWrite) = <<>>
        /\ TheStream.pc = "idle" => TheStream.res = ResOk

\* C14 amended: a flush call that finds the outbound BIO empty writes nothing
\* to the transport; it looks at the BIO once, then flushes the transport
\* once and returns what that flush answered, Ok or the transport's error.
C14_EmptyFlush ==
    EmptyFlush =>
        \/ TheStream.pc \in {"wt", "sflush"} /\ wire.ev = <<>>
        \/ /\ TheStream.pc = "idle"
           /\ Len(wire.ev) = 1 /\ IsFlush(wire.ev[1])
           /\ TheStream.res = IF Failed(wire.ev[1])
                              THEN ResIoErr(wire.ev[1].io) ELSE ResOk

\* a flush call that found the outbound BIO empty has returned the error of
\* the transport's flush
C14_Witness ==
    /\ EmptyFlush /\ TheStream.pc = "idle"
    /\ Len(wire.ev) = 1 /\ Failed(wire.ev[1])
    /\ TheStream.res = ResIoErr(wire.ev[1].io)

\* C15: a flush call that has returned Ok has left the outbound BIO empty,
\* has written to the transport exactly what the BIO held, in its order,
\* and has then flushed the transport, once, after the last write; and when a
\* write of the drain fails the transport is not flushed and flush returns
\* that error.
C15_FlushDrainsThenFlushes ==
    TheStream.op = "flush" =>
        LET ev == wire.ev
            n == Len(ev)
        IN  /\ (TheStream.pc = "idle" /\ TheStream.res = ResOk) =>
                    /\ TheStream.wbio = <<>>
                    /\ n >= 1 /\ IsFlush(ev[n])
                    /\ \A i \in 1..(n - 1) : IsWrite(ev[i])
                    /\ \A i \in 1..n : ~Failed(ev[i])
                    /\ Cat(SubSeq(ev, 1, n - 1)) = wire.wbio0
            /\ \A i \in 1..n : (IsWrite(ev[i]) /\ Failed(ev[i])) =>
                    /\ i = n
                    /\ SelectSeq(ev, IsFlush) = <<>>
                    /\ TheStream.pc = "idle"
                    /\ TheStream.res = ResIoErr(ev[i].io)

\* a flush call has drained an outbound BIO that held more than the scratch
\* buffer takes, in two writes, and returned Ok
C15_Witness ==
    /\ TheStream.op = "flush" /\ TheStream.pc = "idle"
    /\ TheStream.res = ResOk
    /\ Len(wire.wbio0) > BufSize
    /\ Len(wire.ev) = 3 /\ IsWrite(wire.ev[2])

\* the order of the transport calls of one iteration: writes, flush, read
Rank(e) == CASE IsWrite(e) -> 1 [] IsFlush(e) -> 2 [] IsRead(e) -> 3

InOrder(ev) ==
    /\ \A i, j \in 1..Len(ev) : i < j => Rank(ev[i]) <= Rank(ev[j])
    /\ Len(SelectSeq(ev, IsFlush)) <= 1
    /\ Len(SelectSeq(ev, IsRead)) <= 1

\* the outbound BIO has been drained: what it held went to the transport,
\* in order, every write succeeded, and it is empty
Drained == /\ Cat(SelectSeq(wire.ev, IsWrite)) = wire.wbio0
           /\ \A i \in 1..Len(wire.ev) :
                    IsWrite(wire.ev[i]) => ~Failed(wire.ev[i])
           /\ TheStream.wbio = <<>>

\* C17: in an iteration the engine classified as want-read the transport
\* calls are the writes of the drain, then the transport's flush, then one
\* read; the read is made only after the outbound BIO has been drained
\* empty; and when the loop is about to retry, one read has been made, its
\* bytes are in the scratch buffer and exactly they have been appended to
\* the inbound BIO.
C17_WantReadOrder ==
    wire.branch = "ErrorWantRead" =>
        LET ev == wire.ev
            n == Len(ev)
        IN  /\ InOrder(ev)
            /\ (TheStream.pc = "sread" \/ SelectSeq(ev, IsRead) # <<>>) =>
                    /\ Drained
                    /\ \E i \in 1..n : IsFlush(ev[i]) /\ ~Failed(ev[i])
            /\ TheStream.pc = "sread" => SelectSeq(ev, IsRead) = <<>>
            /\ TheStream.pc = "blk" =>
                    /\ n >= 2 /\ IsRead(ev[n]) /\ ~Failed(ev[n])
                    /\ slice_to(TheStream.buf, Len(ev[n].b)) = ev[n].b
                    /\ TheStream.rbio = wire.rbio0 \o ev[n].b

\* a want-read iteration has drained the outbound BIO in two writes, flushed
\* the transport, read a full scratch buffer and fed it to the inbound BIO
C17_Witness ==
    /\ wire.branch = "ErrorWantRead" /\ TheStream.pc = "blk"
    /\ Len(wire.ev) = 4 /\ IsWrite(wire.ev[2]) /\ IsRead(wire.ev[4])
    /\ Len(wire.ev[4].b) = BufSize
    /\ TheStream.rbio = wire.ev[4].b

\* C18: in an iteration the engine classified as want-write the adapter
\* makes no transport read and leaves the inbound BIO as it was; when the
\* loop is about to retry the outbound BIO has been drained to the transport
\* and the transport flushed.
C18_WantWriteNoRead ==
    wire.branch = "ErrorWantWrite" =>
        LET ev == wire.ev
            n == Len(ev)
        IN  /\ InOrder(ev)
            /\ SelectSeq(ev, IsRead) = <<>>
            /\ TheStream.pc # "sread"
            /\ TheStream.rbio = wire.rbio0
            /\ TheStream.pc = "blk" =>
                    /\ Drained
                    /\ n >= 1 /\ IsFlush(ev[n]) /\ ~Failed(ev[n])

\* a want-write iteration has drained the outbound BIO in two writes and
\* flushed the transport, and the loop is about to retry
C18_Witness ==
    /\ wire.branch = "ErrorWantWrite" /\ TheStream.pc = "blk"
    /\ Len(wire.ev) = 3 /\ IsWrite(wire.ev[2]) /\ IsFlush(wire.ev[3])
    /\ TheStream.rbio = <<>>

\* C19: in a write call every chunk the engine accepts is followed by a
\* drain of the outbound BIO before the next engine attempt and before write
\* returns Ok: at each of these points as many drains have run to the end
\* as chunks were accepted, and after a chunk the BIO is empty and what it
\* held has gone to the transport; write returns early only with the error
\* of a transport write of that drain.
C19_DrainAfterEachChunk ==
    TheStream.op = "write" =>
        LET st == TheStream
            ev == wire.ev
            atBoundary == st.pc = "blk" \/ (st.pc = "idle" /\ st.res = ResOk)
        IN  /\ wire.cycles <= wire.chunks /\ wire.chunks <= wire.cycles + 1
            /\ atBoundary =>
                    /\ wire.cycles = wire.chunks
                    /\ (wire.branch = "progress" /\ wire.chunks > 0) => Drained
            /\ (st.pc = "idle" /\ st.res = ResOk) =>
                    wire.chunks >= (IF st.wbuf = <<>> THEN 0 ELSE 1)
            /\ (st.pc = "idle" /\ st.res # ResOk) =>
                    /\ wire.chunks = wire.cycles + 1
                    /\ ev # <<>> /\ IsWrite(ev[Len(ev)]) /\ Failed(ev[Len(ev)])
                    /\ st.res = ResIoErr(ev[Len(ev)].io)

\* a write has returned Ok after the engine took its buffer in MaxLen chunks,
\* each followed by a drain, the last one of two transport writes
C19_Witness ==
    /\ TheStream.op = "write" /\ TheStream.pc = "idle"
    /\ TheStream.res = ResOk
    /\ Len(TheStream.wbuf) = MaxLen
    /\ wire.chunks = MaxLen /\ wire.cycles = MaxLen
    /\ Len(wire.ev) = 2 /\ Len(wire.wbio0) > BufSize

\* the adapter reports the end of the stream: read's EndOfFile for a closed
\* session, or SslSessionClosed from a construction
ReportsClosed(st) ==
    st.res.io = SessionClosedEof \/ st.res.ssl = SslSessionClosed

\* C20: after a transport read that returned no bytes the retry loop goes on
\* to the next engine attempt, with the inbound BIO as it was and nothing
\* returned to the caller; and a call reports the end of the stream only
\* when the engine's last answer was the clean close of the session.
C20_ZeroReadRetries ==
    LET st == TheStream
        ev == wire.ev
        n == Len(ev)
    IN  /\ (n > 0 /\ IsRead(ev[n]) /\ ~Failed(ev[n]) /\ ev[n].b = <<>>) =>
                /\ st.pc = "blk"
                /\ st.res = NoRes
                /\ st.rbio = wire.rbio0
        /\ ReportsClosed(st) =>
                /\ st.last = "ErrorZeroReturn"
                /\ wire.branch = "ErrorZeroReturn"

\* in a read call the transport has returned no bytes and the loop is about
\* to ask the engine again
C20_Witness ==
    /\ TheStream.op = "read" /\ TheStream.pc = "blk"
    /\ wire.ev # <<>>
    /\ IsRead(wire.ev[Len(wire.ev)]) /\ ~Failed(wire.ev[Len(wire.ev)])
    /\ wire.ev[Len(wire.ev)].b = <<>>
    /\ TheStream.rbio = <<>>

\* the retry loop is running: the call has neither returned nor failed
InLoop(st) ==
    /\ st.op \in {"connect", "read", "write", "renegotiate"}
    /\ st.pc \in {"blk", "wt", "sflush", "sread"}
    /\ st.res = NoRes

\* the engine's last answer asked for input, and since then no transport
\* call has failed and no transport read has returned a byte
Starved ==
    /\ wire.branch = "ErrorWantRead"
    /\ \A i \in 1..Len(wire.ev) :
            /\ ~Failed(wire.ev[i])
            /\ IsRead(wire.ev[i]) => wire.ev[i].b = <<>>

\* the retry loop has just read the transport
HasRead ==
    /\ TheStream.pc = "blk"
    /\ wire.ev # <<>> /\ IsRead(wire.ev[Len(wire.ev)])

\* a call that ran the retry loop is over: it returned or the task failed
LoopOver(st) ==
    /\ st.op \in {"connect", "read", "write", "renegotiate"}
    /\ st.pc \in {"idle", "new", "dead"}
    /\ wire.branch # "none"

\* C21: while the engine's answers ask for input and the transport's reads
\* return no bytes and no error, the retry loop is still running and has
\* returned nothing; if that goes on for ever the loop reads the transport
\* again and again (<>[]Starved => []<>HasRead, written as one []<>); and
\* a call whose loop is over either got a terminal
\* answer from the engine (progress, the clean close, a protocol error, or
\* a status the loop does not handle, on which the task fails) or an error
\* from the transport.
C21_StarvedLoopSpins ==
    /\ [](Starved => InLoop(TheStream))
    /\ [](LoopOver(TheStream) =>
            \/ wire.branch \notin {"ErrorWantRead", "ErrorWantWrite"}
            \/ \E i \in 1..Len(wire.ev) : Failed(wire.ev[i]))
    /\ []<>(~Starved \/ HasRead)

\* the engine asked for input, the transport read returned no bytes, and
\* the loop, with nothing in the inbound BIO, is about to ask the engine
\* again
C21_Witness ==
    /\ Starved /\ HasRead
    /\ TheStream.op = "connect"
    /\ TheStream.rbio = <<>> /\ wire.rbio0 = <<>>
    /\ Len(wire.ev) = 3

\* C22 as stated, for a call that has read the transport: whatever takes
\* bytes out of the scratch buffer, the feed of the inbound BIO or the
\* drain's transport write, takes no position past the length returned by
\* the most recent transport read.
C22_WithinLastTransportRead == wire.tread >= 0 => wire.used <= wire.tread

\* C22: the feed of the inbound BIO takes no position of the scratch buffer
\* past the length the transport read before it returned, and the drain's
\* transport write takes none past the length the read of the outbound BIO
\* before it returned (the drain fills the buffer from that BIO, whatever
\* the most recent transport read returned).
C22_WithinLastFill ==
    /\ wire.by = "feed" =>
            wire.filled = wire.tread /\ wire.used <= wire.tread
    /\ wire.tread >= 0 => wire.tread <= Len(TheStream.buf)
    /\ wire.by = "drain" => wire.used <= wire.filled
    /\ wire.by = "none" => wire.used = 0

\* the call's most recent transport read returned one byte, and a drain
\* has since filled the scratch buffer from the outbound BIO and written
\* all of it to the transport
C22_Witness ==
    /\ wire.by = "drain"
    /\ wire.tread = 1
    /\ wire.filled = BufSize /\ wire.used = BufSize
    /\ TheStream.op = "read"

----------------------------------------------------------------------------
(* Properties of session creation (SpecSession) *)

\* an engine object that was allocated has been released exactly once
Released(state, frees) ==
    \/ state = "none" /\ frees = 0
    \/ state = "freed" /\ frees = 1

\* C16: a call of Ssl::try_new that returned a session returned it with the
\* handle and both BIOs alive and the BIOs attached, nothing released until
\* the session is dropped; a call that returned an error has left nothing
\* allocated, each object it had allocated released exactly once.
C16_SessionOrNothing ==
    \A k \in DOMAIN heap :
        LET h == heap[k]
        IN  /\ (h.result = "Ok" /\ ~h.dropped) =>
                    /\ h.ssl = "live" /\ h.rbio = "live" /\ h.wbio = "live"
                    /\ h.attached
                    /\ h.ssl_free = 0 /\ h.rbio_free = 0 /\ h.wbio_free = 0
            /\ h.result = "Err" =>
                    /\ Released(h.ssl, h.ssl_free)
                    /\ Released(h.rbio, h.rbio_free)
                    /\ Released(h.wbio, h.wbio_free)
                    /\ ~h.attached
            /\ h.ssl_free <= 1 /\ h.rbio_free <= 1 /\ h.wbio_free <= 1

\* one call failed on the outbound BIO and released the handle and the
\* inbound BIO, one failed on the inbound BIO, and one returned a session
C16_Witness ==
    /\ \E k \in DOMAIN heap :
          /\ heap[k].result = "Err"
          /\ heap[k].ssl_free = 1 /\ heap[k].rbio_free = 1
          /\ heap[k].wbio = "none"
    /\ \E k \in DOMAIN heap :
          /\ heap[k].result = "Err"
          /\ heap[k].ssl_free = 1 /\ heap[k].rbio = "none"
    /\ \E k \in DOMAIN heap : heap[k].result = "Ok" /\ heap[k].attached

----------------------------------------------------------------------------
(* Properties of the locking callbacks (SpecLocks) *)

\* the mutexes a step was about: those whose place in a thread's account
\* changed, and the dynamic ones created or destroyed
Touched ==
    {a \in Addr : \E t \in Thread : (a \in mx.held[t]) # (a \in mx'.held[t])}
    \cup {a \in DynAddr : (a[2] \in mx.handles) # (a[2] \in mx'.handles)}

\* C23: a thread has a mutex locked exactly when its last locking callback
\* on that mutex had the acquire bit set and returned, so that a callback
\* with the bit clear has released it; no two threads have acquired the
\* same mutex; the static mutexes exist throughout and a dynamic one
\* exists exactly from the create-callback that returned its handle to the
\* destroy-callback given that handle; and a callback changes no mutex
\* but the one it was called on.
C23_LockingCallbacks ==
    /\ [](\A t \in Thread : \A a \in Addr :
            a \in mx.held[t] <=> (mx.m[a].live /\ mx.m[a].owner = t))
    /\ [](\A t \in Thread : \A u \in Thread \ {t} :
            mx.held[t] \cap mx.held[u] = {})
    /\ [](\A a \in StaticAddr : mx.m[a].live)
    /\ [](\A h \in Handle : mx.m[<<"dyn", h>>].live <=> h \in mx.handles)
    /\ [][\A a \in Addr : mx'.m[a] # mx.m[a] => a \in Touched]_vars

\* one thread has a static and a dynamic mutex, another thread has the
\* other static one, and a dynamic mutex has been destroyed while those
\* were held
C23_Witness ==
    /\ \E t \in Thread : \E u \in Thread \ {t} :
          /\ \E h \in mx.handles :
                mx.held[t] = {<<"static", 0>>, <<"dyn", h>>}
          /\ mx.held[u] = {<<"static", 1>>}
    /\ \E h \in mx.freed : h \notin mx.handles

====
